---- MODULE Spec2Model ----
(***************************************************************************)
(* Writer/Reviewer slogan generation: the session ledger                   *)
(* (orchestration/models.py), the iteration controller                     *)
(* (orchestration/workflow.py) and the process-wide cached configuration   *)
(* (config/settings.py).                                                   *)
(*                                                                         *)
(* A text is a sequence of one-character strings.  The character "X" with  *)
(* the name BlockChar stands for a run of BlockLen non-blank characters,   *)
(* so that texts longer than the 500/1000 character limits stay short      *)
(* sequences.  An optional value is <<>> (None) or <<v>>.                  *)
(***************************************************************************)
EXTENDS Integers, Sequences, FiniteSets, TLC

VARIABLES mode, cfg, clock, ncalls, pc, args, session, local, result, hist,
          ledger, lres, fin, fout

vars == <<mode, cfg, clock, ncalls, pc, args, session, local, result, hist,
          ledger, lres, fin, fout>>

runVars == <<cfg, ncalls, pc, args, session, local, result, hist>>
ledgerVars == <<ledger, lres>>
fnVars == <<fin, fout>>

----------------------------------------------------------------------------
(* Bounds of the model *)

\* number of calls of run_slogan_generation one after the other
MaxCalls == 3
\* number of calls of run_slogan_generation in the two interleaved slots
MaxConcCalls == 2
\* number of turns with feedback in a session driven directly
MaxLedgerFeedback == 2
\* the clock saturates here (it never goes back)
MaxClock == 2

(* Program constants *)

DefaultMaxTurns == 5
TurnNumberMax == 10
SloganMaxLen == 500
RequestInputMaxLen == 500
FeedbackMaxLen == 1000
UserInputMaxLen == 1000
\* the run of non-blank characters BlockChar stands for
BlockLen == SloganMaxLen

----------------------------------------------------------------------------
(* Optional values and texts *)

None == <<>>
Some(v) == <<v>>
IsNone(o) == o = <<>>
Val(o) == o[1]

NoTime == -1

BlockChar == "X"

CharLen(c) == IF c = BlockChar THEN BlockLen ELSE 1

RECURSIVE TextLen(_)
TextLen(t) == IF t = <<>> THEN 0 ELSE CharLen(Head(t)) + TextLen(Tail(t))

IsSpace(c) == c \in {" ", "\n", "\t"}

RECURSIVE LStrip(_)
LStrip(t) == IF t # <<>> /\ IsSpace(Head(t)) THEN LStrip(Tail(t)) ELSE t

RECURSIVE RStrip(_)
RStrip(t) ==
    IF t # <<>> /\ IsSpace(t[Len(t)]) THEN RStrip(SubSeq(t, 1, Len(t) - 1)) ELSE t

\* str.strip()
Strip(t) == RStrip(LStrip(t))

LowerChar(c) ==
    CASE c = "S" -> "s" [] c = "H" -> "h" [] c = "I" -> "i" [] c = "P" -> "p"
      [] c = "T" -> "t" [] c = "G" -> "g" [] c = "O" -> "o" [] c = "N" -> "n"
      [] c = "L" -> "l"
      [] OTHER -> c

\* str.lower()
Lower(t) == [i \in 1..Len(t) |-> LowerChar(t[i])]

\* str.startswith(p)
StartsWith(t, p) == Len(t) >= Len(p) /\ SubSeq(t, 1, Len(p)) = p

\* str.split('\n')
RECURSIVE SplitLines(_, _)
SplitLines(t, cur) ==
    IF t = <<>> THEN <<cur>>
    ELSE IF Head(t) = "\n" THEN <<cur>> \o SplitLines(Tail(t), <<>>)
    ELSE SplitLines(Tail(t), Append(cur, Head(t)))

RECURSIVE AllIn(_, _)
AllIn(t, S) == t = <<>> \/ (Head(t) \in S /\ AllIn(Tail(t), S))

\* re.match(r'^ship\s+it[!.]*$', line): "ship", then i >= 1 blanks, then "it",
\* then only '!' and '.' up to the end of the line
MatchShipIt(line) ==
    /\ StartsWith(line, <<"s", "h", "i", "p">>)
    /\ \E i \in 1..(Len(line) - 4) :
          /\ \A j \in 5..(4 + i) : IsSpace(line[j])
          /\ Len(line) >= 4 + i + 2
          /\ line[4 + i + 1] = "i"
          /\ line[4 + i + 2] = "t"
          /\ AllIn(SubSeq(line, 4 + i + 3, Len(line)), {"!", "."})

is_approved_anywhere(reviewer_response) ==
    LET n == Lower(Strip(reviewer_response))
        p == <<"s", "h", "i", "p", " ", "i", "t">>
    IN  \E i \in 1..Len(n) : StartsWith(SubSeq(n, i, Len(n)), p)

is_approved_case_sensitive(reviewer_response) ==
    IF reviewer_response = <<>> THEN FALSE
    ELSE LET normalized == Strip(reviewer_response)
             raw == SplitLines(normalized, <<>>)
             lines == [i \in 1..Len(raw) |-> Strip(raw[i])]
         IN  \/ StartsWith(normalized, <<"s", "h", "i", "p", " ", "i", "t">>)
             \/ \E i \in 1..Len(lines) : MatchShipIt(lines[i])

is_approved(reviewer_response) ==
    IF reviewer_response = <<>> THEN FALSE
    ELSE LET normalized == Lower(Strip(reviewer_response))
             raw == SplitLines(normalized, <<>>)
             lines == [i \in 1..Len(raw) |-> Strip(raw[i])]
         IN  \/ StartsWith(normalized, <<"s", "h", "i", "p", " ", "i", "t">>)
             \/ \E i \in 1..Len(lines) : MatchShipIt(lines[i])

----------------------------------------------------------------------------
(* orchestration/models.py: Turn and IterationSession *)

CompletionReasons == {"approved", "max_turns", "error"}
NoReason == "none"

TurnValidCapOffByOne(turn_number, slogan, feedback) ==
    /\ turn_number >= 1
    /\ turn_number <= TurnNumberMax + 1
    /\ TextLen(slogan) >= 1
    /\ TextLen(slogan) <= SloganMaxLen
    /\ (IsNone(feedback) \/ TextLen(Val(feedback)) <= FeedbackMaxLen)

\* Turn(...): the field constraints pydantic checks when a Turn is constructed
TurnValid(turn_number, slogan, feedback) ==
    /\ turn_number >= 1
    /\ turn_number <= TurnNumberMax
    /\ TextLen(slogan) >= 1
    /\ TextLen(slogan) <= SloganMaxLen
    /\ (IsNone(feedback) \/ TextLen(Val(feedback)) <= FeedbackMaxLen)

\* IterationSession(user_input=..., model_name=...): a fresh session
NewSession(user_input, model_name, now) ==
    [user_input |-> user_input, model_name |-> model_name, turns |-> <<>>,
     final_slogan |-> None, completed |-> FALSE, completion_reason |-> NoReason,
     started_at |-> now, completed_at |-> NoTime]

\* the field constraints of IterationSession checked by that constructor call
NewSessionValid(user_input, model_name) ==
    /\ TextLen(user_input) >= 1
    /\ TextLen(user_input) <= UserInputMaxLen
    /\ model_name # ""

\* validate_turn_order
TurnOrderValid(turns) == \A i \in 1..Len(turns) : turns[i].turn_number = i

\* turns: list[Turn] = Field(max_length=10), each entry a valid Turn, then
\* validate_turn_order
TurnsFieldValid(turns) ==
    /\ Len(turns) <= TurnNumberMax
    /\ \A i \in 1..Len(turns) :
           TurnValid(turns[i].turn_number, turns[i].slogan, turns[i].feedback)
    /\ TurnOrderValid(turns)

\* the names of the fields pydantic has validated when it reaches the field
\* "completed": those declared before it (info.data holds these and no others)
FieldsBeforeCompleted == {"user_input", "model_name", "turns", "final_slogan"}

\* info.data.get(name) is truthy
DataTruthy(d, name) ==
    /\ name \in FieldsBeforeCompleted
    /\ IF name = "final_slogan"
       THEN ~IsNone(d.final_slogan) /\ Val(d.final_slogan) # <<>>
       ELSE IF name = "completion_reason" THEN d.completion_reason # NoReason
       ELSE TRUE

\* validate_completion
CompletionValid(d) ==
    d.completed => (DataTruthy(d, "final_slogan") /\ DataTruthy(d, "completion_reason"))

\* IterationSession(**d): TRUE when the constructor accepts the field dictionary
SessionFieldsValid(d) ==
    /\ NewSessionValid(d.user_input, d.model_name)
    /\ TurnsFieldValid(d.turns)
    /\ CompletionValid(d)

\* session.model_dump(): the field dictionary, every turn a dictionary of its own
SessionDump(s) ==
    [user_input |-> s.user_input, model_name |-> s.model_name,
     turns |-> [i \in 1..Len(s.turns) |->
                  [turn_number |-> s.turns[i].turn_number, slogan |-> s.turns[i].slogan,
                   feedback |-> s.turns[i].feedback, approved |-> s.turns[i].approved,
                   timestamp |-> s.turns[i].timestamp]],
     final_slogan |-> s.final_slogan, completed |-> s.completed,
     completion_reason |-> s.completion_reason, started_at |-> s.started_at,
     completed_at |-> s.completed_at]

NextTurnNumberStuck(turns) == IF turns = <<>> THEN 1 ELSE Len(turns)

\* add_turn: turn_number=len(self.turns) + 1
NextTurnNumber(turns) == Len(turns) + 1

NewTurn(turns, slogan, feedback, approved, now) ==
    [turn_number |-> NextTurnNumber(turns), slogan |-> slogan,
     feedback |-> feedback, approved |-> approved, timestamp |-> now]

\* IterationSession.add_turn: ok = FALSE is the ValidationError of Turn(...),
\* raised before the append
add_turn_reopens(s, slogan, feedback, approved, now) ==
    IF TurnValid(NextTurnNumber(s.turns), slogan, feedback)
    THEN [ok |-> TRUE,
          session |-> [s EXCEPT !.turns =
                          Append(@, NewTurn(s.turns, slogan, feedback, approved, now)),
                                !.completed = FALSE, !.completion_reason = NoReason],
          turn |-> Some(NewTurn(s.turns, slogan, feedback, approved, now))]
    ELSE [ok |-> FALSE, session |-> s, turn |-> None]

add_turn(s, slogan, feedback, approved, now) ==
    IF TurnValid(NextTurnNumber(s.turns), slogan, feedback)
    THEN [ok |-> TRUE,
          session |-> [s EXCEPT !.turns =
                          Append(@, NewTurn(s.turns, slogan, feedback, approved, now))],
          turn |-> Some(NewTurn(s.turns, slogan, feedback, approved, now))]
    ELSE [ok |-> FALSE, session |-> s, turn |-> None]

FinalSloganFirst(turns) == IF turns # <<>> THEN Some(turns[1].slogan) ELSE None

\* complete: self.turns[-1].slogan if self.turns else None
FinalSloganOf(turns) == IF turns # <<>> THEN Some(turns[Len(turns)].slogan) ELSE None

complete_stamped_at_start(s, reason, now) ==
    [s EXCEPT !.completed = TRUE, !.completion_reason = reason,
              !.completed_at = s.started_at, !.final_slogan = FinalSloganOf(s.turns)]

complete_requires_turn(s, reason, now) ==
    IF s.turns = <<>> THEN s
    ELSE [s EXCEPT !.completed = TRUE, !.completion_reason = reason,
                   !.completed_at = now, !.final_slogan = FinalSloganOf(s.turns)]

\* IterationSession.complete (plain attribute assignments, nothing is validated)
complete(s, reason, now) ==
    [s EXCEPT !.completed = TRUE, !.completion_reason = reason,
              !.completed_at = now, !.final_slogan = FinalSloganOf(s.turns)]

----------------------------------------------------------------------------
(* config/settings.py: the cached configuration object *)

DefaultModel == "mistral:latest"

\* OllamaConfig(): the object get_ollama_config() builds once and then returns
\* to every caller
DefaultConfig == [model_name |-> DefaultModel, max_turns |-> DefaultMaxTurns]

\* run_slogan_generation lines 101-104, assignments to the cached object
ApplyOverrides(c, model_name, max_turns) ==
    [model_name |-> IF ~IsNone(model_name) /\ Val(model_name) # ""
                    THEN Val(model_name) ELSE c.model_name,
     max_turns |-> IF ~IsNone(max_turns) THEN Val(max_turns) ELSE c.max_turns]

----------------------------------------------------------------------------
(* orchestration/workflow.py *)

should_continue_ignoring_approval(turns, max_turns) ==
    IF turns = <<>> THEN TRUE ELSE Len(turns) < max_turns

should_continue_off_by_one(turns, max_turns) ==
    IF turns = <<>> THEN TRUE
    ELSE IF turns[Len(turns)].approved THEN FALSE
    ELSE IF Len(turns) > max_turns THEN FALSE
    ELSE TRUE

should_continue_iteration(turns, max_turns) ==
    IF turns = <<>> THEN TRUE
    ELSE IF turns[Len(turns)].approved THEN FALSE
    ELSE IF Len(turns) >= max_turns THEN FALSE
    ELSE TRUE

InputEmptyNoStrip(user_input) == user_input = <<>>

\* line 96: not user_input or not user_input.strip()
InputEmpty(user_input) == user_input = <<>> \/ Strip(user_input) = <<>>

\* lines 122-131: the writer prompt, by the parts the f-string holds
WriterPromptOldestTurn(user_input, turns) ==
    IF NextTurnNumber(turns) = 1
    THEN [topic |-> user_input, previous_slogan |-> None, previous_feedback |-> None]
    ELSE [topic |-> user_input,
          previous_slogan |-> Some(turns[1].slogan),
          previous_feedback |-> turns[1].feedback]

WriterPrompt(user_input, turns) ==
    IF NextTurnNumber(turns) = 1
    THEN [topic |-> user_input, previous_slogan |-> None, previous_feedback |-> None]
    ELSE [topic |-> user_input,
          previous_slogan |-> Some(turns[Len(turns)].slogan),
          previous_feedback |-> turns[Len(turns)].feedback]

\* lines 138-142: the reviewer prompt
ReviewerPrompt(user_input, slogan) == [topic |-> user_input, slogan |-> slogan]

StopOnApprovalNever(approved) == FALSE

\* lines 157-159: if approved: complete(APPROVED); break
StopOnApproval(approved) == approved

----------------------------------------------------------------------------
(* The inputs *)

Slots == {1, 2}

\* the slots in which run_slogan_generation is called, by mode
ActiveSlots ==
    IF mode \in {"conc", "models", "live"} THEN Slots ELSE IF mode \in {"seq", "api"} THEN {1} ELSE {}

TurnTag(k) == <<"1", "2", "3", "4", "5", "6", "7", "8", "9", "a", "b", "c">>[k]

\* no text, a blank text, a topic, and in the sequential mode 1001 characters
UserInputs ==
    IF mode = "seq" THEN {<<>>, <<" ">>, <<" ", "t">>, <<BlockChar, BlockChar, "t">>}
    ELSE IF mode \in {"models", "live"} THEN {<<" ", "t">>}
    ELSE {<<>>, <<" ">>, <<" ", "t">>}

ModelArgs ==
    IF mode = "models" THEN {None, Some("llama3"), Some("phi3")}
    ELSE IF mode = "live" THEN {None}
    ELSE {None, Some("llama3")}

MaxTurnsArgs ==
    IF mode = "seq" THEN {None, Some(0), Some(1), Some(2), Some(10), Some(11)}
    ELSE IF mode = "models" THEN {Some(2)}
    ELSE IF mode = "live" THEN {Some(0), Some(1), Some(11)}
    ELSE {None, Some(1), Some(2)}

\* what the writer may answer in turn k: a slogan, a blank text, 501 characters
WriterReplies(k) ==
    IF mode = "seq"
    THEN {<<" ", "s", TurnTag(k), "\n">>, <<" ">>, <<BlockChar, "s">>}
    ELSE {<<" ", "s", TurnTag(k), "\n">>}

WriterTexts == UNION {WriterReplies(k) : k \in 1..(TurnNumberMax + 1)}

\* what the reviewer may answer
ReviewerReplies ==
    IF mode = "seq"
    THEN {<<"S", "H", "I", "P", " ", "I", "T", "!">>,
          <<"G", "o", ",", " ", "S", "H", "I", "P", " ", "I", "T", "!">>,
          <<"o", "k", "\n", " ", "s", "h", "i", "p", " ", "\t", "i", "t", ".", " ">>,
          <<BlockChar, BlockChar, "n">>}
    ELSE {<<"S", "H", "I", "P", " ", "I", "T", "!">>,
          <<"G", "o", ",", " ", "S", "H", "I", "P", " ", "I", "T", "!">>}

\* what the reviewer may also answer in the first turn: the phrase in lower and
\* in mixed case, and with blanks inside and words after it
FirstReviewerReplies ==
    IF mode = "seq"
    THEN {<<"s", "h", "i", "p", " ", "i", "t", "!">>,
          <<"S", "h", "i", "p", " ", "I", "t", "!">>,
          <<"s", "h", "i", "p", " ", " ", " ", "i", "t", "!", " ",
            "P", "e", "r", "f", "e", "c", "t", "!">>}
    ELSE {}

ReviewerRepliesIn(k) ==
    IF k = 1 THEN ReviewerReplies \cup FirstReviewerReplies ELSE ReviewerReplies

ReviewerTexts == ReviewerReplies \cup FirstReviewerReplies

\* what a responder may raise
ResponderErrors ==
    IF mode = "seq" THEN {"ConnectionError", "BackendError"} ELSE {"ConnectionError"}

NoArgs == [user_input |-> <<>>, model_name |-> None, max_turns |-> None]

NoLocal ==
    [writer_model |-> "", reviewer_model |-> "", slogan |-> None,
     writer_prompt |-> None, reviewer_prompt |-> None]

NoResult == [kind |-> "none", cause |-> "none"]

\* what the model remembers of a call: its number, how often it invoked the
\* writer and the reviewer, whether an invocation raised
\* what get_available_models gave the request of a call: nothing asked, a list of
\* names, or an error
NoFetch == [kind |-> "none", models |-> {}]

NoHist == [callno |-> 0, winv |-> 0, rinv |-> 0, failed |-> FALSE, expired |-> FALSE,
           fetch |-> NoFetch]

Tick(t) == IF t < MaxClock THEN t + 1 ELSE t

----------------------------------------------------------------------------
(* run_slogan_generation, one action per stretch of code between two awaits *)

FailReturnsSession(r, s, now, cause, h) ==
    /\ pc' = [pc EXCEPT ![r] = "done"]
    /\ session' = [session EXCEPT ![r] = Some(complete(s, "error", now))]
    /\ result' = [result EXCEPT ![r] = [kind |-> "returned", cause |-> cause]]
    /\ local' = local
    /\ hist' = [hist EXCEPT ![r] = h]

\* the except clause, lines 167-169
Fail(r, s, now, cause, h) ==
    /\ pc' = [pc EXCEPT ![r] = "done"]
    /\ session' = [session EXCEPT ![r] = Some(complete(s, "error", now))]
    /\ result' = [result EXCEPT ![r] = [kind |-> "RuntimeError", cause |-> cause]]
    /\ local' = local
    /\ hist' = [hist EXCEPT ![r] = h]

AfterLoopOverwrites(s, now) == complete(s, "max_turns", now)

\* lines 161-163, after the loop: if not session.completed, complete(MAX_TURNS)
AfterLoop(s, now) == IF ~s.completed THEN complete(s, "max_turns", now) ELSE s

LoopHeadRecreatesAgents(r, s, c, now, loc, h) ==
    IF should_continue_iteration(s.turns, c.max_turns)
    THEN /\ pc' = [pc EXCEPT ![r] = "await_writer"]
         /\ session' = [session EXCEPT ![r] = Some(s)]
         /\ local' = [local EXCEPT ![r] =
                [loc EXCEPT !.writer_model = c.model_name,
                            !.reviewer_model = c.model_name,
                            !.writer_prompt =
                                Some(WriterPrompt(args'[r].user_input, s.turns)),
                            !.slogan = None, !.reviewer_prompt = None]]
         /\ result' = [result EXCEPT ![r] = NoResult]
         /\ hist' = [hist EXCEPT ![r] = [h EXCEPT !.winv = @ + 1]]
    ELSE /\ pc' = [pc EXCEPT ![r] = "done"]
         /\ session' = [session EXCEPT ![r] =
                Some(AfterLoop(s, now))]
         /\ local' = [local EXCEPT ![r] = loc]
         /\ result' = [result EXCEPT ![r] = [kind |-> "returned", cause |-> "none"]]
         /\ hist' = [hist EXCEPT ![r] = h]

\* the head of the while loop, line 118, on the shared configuration c, and
\* what follows it: either lines 119-134 up to the writer's await, or lines
\* 161-165
LoopHead(r, s, c, now, loc, h) ==
    IF should_continue_iteration(s.turns, c.max_turns)
    THEN /\ pc' = [pc EXCEPT ![r] = "await_writer"]
         /\ session' = [session EXCEPT ![r] = Some(s)]
         /\ local' = [local EXCEPT ![r] =
                [loc EXCEPT !.writer_prompt =
                                Some(WriterPrompt(args'[r].user_input, s.turns)),
                            !.slogan = None, !.reviewer_prompt = None]]
         /\ result' = [result EXCEPT ![r] = NoResult]
         /\ hist' = [hist EXCEPT ![r] = [h EXCEPT !.winv = @ + 1]]
    ELSE /\ pc' = [pc EXCEPT ![r] = "done"]
         /\ session' = [session EXCEPT ![r] =
                Some(AfterLoop(s, now))]
         /\ local' = [local EXCEPT ![r] = loc]
         /\ result' = [result EXCEPT ![r] = [kind |-> "returned", cause |-> "none"]]
         /\ hist' = [hist EXCEPT ![r] = h]

\* lines 96-134: the call, up to the first await
Run(r, user_input, model_name, max_turns, h0) ==
    /\ r \in ActiveSlots
    /\ pc[r] \in (IF mode = "live" THEN {"idle"} ELSE {"idle", "done"})
    /\ ncalls < (IF mode \in {"conc", "models", "live"} THEN MaxConcCalls ELSE MaxCalls)
    /\ ncalls' = ncalls + 1
    /\ args' = [args EXCEPT ![r] = [user_input |-> user_input,
                                    model_name |-> model_name,
                                    max_turns |-> max_turns]]
    /\ UNCHANGED <<mode, clock, ledgerVars, fnVars>>
    /\ IF InputEmpty(user_input)
       THEN /\ pc' = [pc EXCEPT ![r] = "done"]
            /\ result' = [result EXCEPT ![r] =
                              [kind |-> "ValueError", cause |-> "empty"]]
            /\ session' = [session EXCEPT ![r] = None]
            /\ local' = [local EXCEPT ![r] = NoLocal]
            /\ hist' = [hist EXCEPT ![r] = [h0 EXCEPT !.callno = ncalls']]
            /\ cfg' = cfg
       ELSE /\ cfg' = ApplyOverrides(cfg, model_name, max_turns)
            /\ IF ~NewSessionValid(Strip(user_input), cfg'.model_name)
               THEN /\ pc' = [pc EXCEPT ![r] = "done"]
                    /\ result' = [result EXCEPT ![r] =
                                      [kind |-> "ValidationError", cause |-> "session"]]
                    /\ session' = [session EXCEPT ![r] = None]
                    /\ local' = [local EXCEPT ![r] = NoLocal]
                    /\ hist' = [hist EXCEPT ![r] = [h0 EXCEPT !.callno = ncalls']]
               ELSE LoopHead(r, NewSession(Strip(user_input), cfg'.model_name, clock),
                             cfg', clock,
                             [NoLocal EXCEPT !.writer_model = cfg'.model_name,
                                             !.reviewer_model = cfg'.model_name],
                             [h0 EXCEPT !.callno = ncalls'])

\* run_slogan_generation called directly
Call(r, user_input, model_name, max_turns) ==
    Run(r, user_input, model_name, max_turns, NoHist)

\* lines 134-143: the writer answers; up to the reviewer's await
WriterReturnsRetriesBlank(r, text) ==
    /\ pc[r] = "await_writer"
    /\ text \in WriterReplies(NextTurnNumber(Val(session[r]).turns))
    /\ clock' = Tick(clock)
    /\ IF Strip(text) = <<>>
       THEN /\ hist' = [hist EXCEPT ![r].winv = @ + 1]
            /\ UNCHANGED <<pc, local>>
       ELSE /\ pc' = [pc EXCEPT ![r] = "await_reviewer"]
            /\ local' = [local EXCEPT ![r].slogan = Some(Strip(text)),
                                      ![r].reviewer_prompt =
                                          Some(ReviewerPrompt(args[r].user_input, Strip(text)))]
            /\ hist' = [hist EXCEPT ![r].rinv = @ + 1]
    /\ UNCHANGED <<mode, cfg, ncalls, args, session, result, ledgerVars, fnVars>>

WriterReturns(r, text) ==
    /\ pc[r] = "await_writer"
    /\ text \in WriterReplies(NextTurnNumber(Val(session[r]).turns))
    /\ clock' = Tick(clock)
    /\ pc' = [pc EXCEPT ![r] = "await_reviewer"]
    /\ local' = [local EXCEPT ![r].slogan = Some(Strip(text)),
                              ![r].reviewer_prompt =
                                  Some(ReviewerPrompt(args[r].user_input, Strip(text)))]
    /\ hist' = [hist EXCEPT ![r].rinv = @ + 1]
    /\ UNCHANGED <<mode, cfg, ncalls, args, session, result, ledgerVars, fnVars>>

\* line 134 raises
WriterRaises(r, e) ==
    /\ pc[r] = "await_writer"
    /\ clock' = Tick(clock)
    /\ Fail(r, Val(session[r]), clock', e, [hist[r] EXCEPT !.failed = TRUE])
    /\ UNCHANGED <<mode, cfg, ncalls, args, ledgerVars, fnVars>>

\* lines 143-165: the reviewer answers; up to the next await or the return
ReviewerReturns(r, text) ==
    /\ pc[r] = "await_reviewer"
    /\ text \in ReviewerRepliesIn(NextTurnNumber(Val(session[r]).turns))
    /\ clock' = Tick(clock)
    /\ UNCHANGED <<mode, cfg, ncalls, args, ledgerVars, fnVars>>
    /\ LET feedback == Strip(text)
           approved == is_approved(feedback)
           added == add_turn(Val(session[r]), Val(local[r].slogan), Some(feedback),
                             approved, clock')
       IN  IF ~added.ok
           THEN Fail(r, Val(session[r]), clock', "ValidationError", hist[r])
           ELSE IF StopOnApproval(approved)
           THEN /\ pc' = [pc EXCEPT ![r] = "done"]
                /\ session' = [session EXCEPT ![r] =
                       Some(AfterLoop(complete(added.session, "approved", clock'),
                                      clock'))]
                /\ result' = [result EXCEPT ![r] =
                       [kind |-> "returned", cause |-> "none"]]
                /\ local' = local
                /\ hist' = hist
           ELSE LoopHead(r, added.session, cfg, clock', local[r], hist[r])

ReviewerRaisesKeepsSlogan(r, e) ==
    /\ pc[r] = "await_reviewer"
    /\ clock' = Tick(clock)
    /\ Fail(r, add_turn(Val(session[r]), Val(local[r].slogan), None, FALSE, clock').session,
            clock', e, [hist[r] EXCEPT !.failed = TRUE])
    /\ UNCHANGED <<mode, cfg, ncalls, args, ledgerVars, fnVars>>

\* line 143 raises
ReviewerRaises(r, e) ==
    /\ pc[r] = "await_reviewer"
    /\ clock' = Tick(clock)
    /\ Fail(r, Val(session[r]), clock', e, [hist[r] EXCEPT !.failed = TRUE])
    /\ UNCHANGED <<mode, cfg, ncalls, args, ledgerVars, fnVars>>

TimeoutCaughtByExcept(r) ==
    /\ pc[r] \in {"await_writer", "await_reviewer"}
    /\ Fail(r, Val(session[r]), clock, "CancelledError", [hist[r] EXCEPT !.expired = TRUE])
    /\ UNCHANGED <<mode, cfg, clock, ncalls, args, ledgerVars, fnVars>>

\* api/routes/generate.py lines 50-58: asyncio.wait_for cancels the run at the
\* await it is suspended in; CancelledError is no Exception, the except clause
\* of the run does not see it
Timeout(r) ==
    /\ pc[r] \in {"await_writer", "await_reviewer"}
    /\ pc' = [pc EXCEPT ![r] = "done"]
    /\ result' = [result EXCEPT ![r] = [kind |-> "TimeoutError", cause |-> "none"]]
    /\ hist' = [hist EXCEPT ![r].expired = TRUE]
    /\ UNCHANGED <<mode, cfg, clock, ncalls, args, session, local, ledgerVars, fnVars>>

\* the exception classes an outcome of the run is an instance of
IsInstance(kind, class) ==
    \/ kind = class
    \/ kind = "ValidationError" /\ class = "ValueError"
    \/ kind \notin {"returned", "none"} /\ class = "Exception"

\* api/routes/generate.py lines 155-235: what generate_slogan answers for an
\* outcome of the run, by the order of its except clauses
ApiResponse(res) ==
    IF res.kind = "returned" THEN [status |-> 200, error |-> "none"]
    ELSE IF res.kind = "HTTPException" THEN [status |-> 400, error |-> res.cause]
    ELSE IF IsInstance(res.kind, "TimeoutError")
         THEN [status |-> 504, error |-> "generation_timeout"]
    ELSE IF IsInstance(res.kind, "ConnectionError")
         THEN [status |-> 503, error |-> "service_unavailable"]
    ELSE IF IsInstance(res.kind, "ValueError")
         THEN [status |-> 400, error |-> "invalid_request"]
    ELSE [status |-> 500, error |-> "internal_error"]

\* api/schemas/requests.py: the body FastAPI lets through to generate_slogan
RequestValid(input, max_turns) ==
    /\ TextLen(input) \in 1..RequestInputMaxLen
    /\ IF IsNone(max_turns) THEN TRUE ELSE Val(max_turns) \in 1..TurnNumberMax

\* what the fetch of the model list may give
FetchOutcomes ==
    {[kind |-> "list", models |-> {DefaultModel}],
     [kind |-> "list", models |-> {DefaultModel, "llama3"}],
     [kind |-> "ConnectionError", models |-> {}],
     [kind |-> "RuntimeError", models |-> {}]}

ModelRejectedUnlessListed(model, fetch) ==
    ~IsNone(model) /\ ~(fetch.kind = "list" /\ Val(model) \in fetch.models)

\* api/routes/generate.py lines 157-173: the requested model is refused when a
\* list was fetched and does not have it
ModelRejected(model, fetch) ==
    ~IsNone(model) /\ fetch.kind = "list" /\ Val(model) \notin fetch.models

\* generate_slogan, lines 155-180: the model check, then the run up to its
\* first await
Generate(r, input, model, max_turns, fetch) ==
    /\ mode = "api"
    /\ RequestValid(input, max_turns)
    /\ IsNone(model) => fetch = NoFetch
    /\ ~IsNone(model) => fetch \in FetchOutcomes
    /\ IF ModelRejected(model, fetch)
       THEN /\ r \in ActiveSlots
            /\ pc[r] \in {"idle", "done"}
            /\ ncalls < MaxCalls
            /\ ncalls' = ncalls + 1
            /\ args' = [args EXCEPT ![r] = [user_input |-> input,
                                            model_name |-> model,
                                            max_turns |-> max_turns]]
            /\ pc' = [pc EXCEPT ![r] = "done"]
            /\ result' = [result EXCEPT ![r] =
                              [kind |-> "HTTPException", cause |-> "model_not_found"]]
            /\ session' = [session EXCEPT ![r] = None]
            /\ local' = [local EXCEPT ![r] = NoLocal]
            /\ hist' = [hist EXCEPT ![r] =
                            [NoHist EXCEPT !.callno = ncalls', !.fetch = fetch]]
            /\ UNCHANGED <<mode, cfg, clock, ledgerVars, fnVars>>
       ELSE Run(r, input, model, max_turns, [NoHist EXCEPT !.fetch = fetch])

RunNext ==
    \/ \E r \in Slots, u \in UserInputs, m \in ModelArgs, t \in MaxTurnsArgs :
          Call(r, u, m, t)
    \/ \E r \in Slots, text \in WriterTexts : WriterReturns(r, text)
    \/ \E r \in Slots, e \in ResponderErrors : WriterRaises(r, e)
    \/ \E r \in Slots, text \in ReviewerTexts : ReviewerReturns(r, text)
    \/ \E r \in Slots, e \in ResponderErrors : ReviewerRaises(r, e)
    \/ \E r \in Slots : Timeout(r)

\* requests to the endpoint, and the runs they start
ApiNext ==
    \/ \E r \in Slots, u \in UserInputs, m \in ModelArgs, t \in MaxTurnsArgs,
          f \in FetchOutcomes \cup {NoFetch} : Generate(r, u, m, t, f)
    \/ RunNext

InitRuns ==
    /\ cfg = DefaultConfig
    /\ clock = 0
    /\ ncalls = 0
    /\ pc = [r \in Slots |-> "idle"]
    /\ args = [r \in Slots |-> NoArgs]
    /\ session = [r \in Slots |-> None]
    /\ local = [r \in Slots |-> NoLocal]
    /\ result = [r \in Slots |-> NoResult]
    /\ hist = [r \in Slots |-> NoHist]

----------------------------------------------------------------------------
(* The session driven directly through add_turn and complete, as the unit     *)
(* tests do                                                                    *)

LedgerSlogans(k) == {<<"s", TurnTag(k)>>, <<>>, <<BlockChar, "s">>}

LedgerSloganTexts == UNION {LedgerSlogans(k) : k \in 1..(TurnNumberMax + 1)}

\* (feedback, approved) as the tests pass them
LedgerReviews ==
    {[feedback |-> None, approved |-> FALSE],
     [feedback |-> Some(<<"S", "H", "I", "P", " ", "I", "T", "!">>), approved |-> TRUE],
     [feedback |-> Some(<<BlockChar, BlockChar, "n">>), approved |-> FALSE]}

FeedbackCount(turns) == Cardinality({i \in 1..Len(turns) : ~IsNone(turns[i].feedback)})

\* the last direct call: what was called with what, and what it answered
NoLedgerResult ==
    [op |-> "none", ok |-> TRUE, turn |-> None, slogan |-> <<>>, feedback |-> None,
     rebuilt |-> None, reason |-> NoReason]

LedgerAddTurn(slogan, review) ==
    /\ mode = "ledger"
    /\ slogan \in LedgerSlogans(NextTurnNumber(ledger.turns))
    /\ IsNone(review.feedback) \/ FeedbackCount(ledger.turns) < MaxLedgerFeedback
    /\ clock' = Tick(clock)
    /\ LET added == add_turn(ledger, slogan, review.feedback, review.approved, clock')
       IN  /\ ledger' = added.session
           /\ lres' = [op |-> "add_turn", ok |-> added.ok, turn |-> added.turn,
                       slogan |-> slogan, feedback |-> review.feedback,
                       rebuilt |-> None, reason |-> NoReason]
    /\ UNCHANGED <<mode, runVars, fnVars>>

LedgerComplete(reason) ==
    /\ mode = "ledger"
    /\ clock' = Tick(clock)
    /\ ledger' = complete(ledger, reason, clock')
    /\ lres' = [NoLedgerResult EXCEPT !.op = "complete", !.reason = reason]
    /\ UNCHANGED <<mode, runVars, fnVars>>

\* IterationSession(**session.model_dump())
LedgerRoundTrip ==
    /\ mode = "ledger"
    /\ lres' = [NoLedgerResult EXCEPT
                   !.op = "roundtrip",
                   !.ok = SessionFieldsValid(SessionDump(ledger)),
                   !.rebuilt = IF SessionFieldsValid(SessionDump(ledger))
                               THEN Some(SessionDump(ledger)) ELSE None]
    /\ UNCHANGED <<mode, clock, ledger, runVars, fnVars>>

LedgerNext ==
    \/ \E slogan \in LedgerSloganTexts, review \in LedgerReviews :
          LedgerAddTurn(slogan, review)
    \/ \E reason \in CompletionReasons : LedgerComplete(reason)
    \/ LedgerRoundTrip

InitLedger ==
    /\ ledger = NewSession(<<"t">>, "llama3.2:latest", 0)
    /\ lres = NoLedgerResult

----------------------------------------------------------------------------
(* is_approved and should_continue_iteration applied to given arguments, as   *)
(* the unit tests do                                                           *)

\* longest list of turns given to should_continue_iteration
MaxFnTurns == 3
\* largest max_turns given to should_continue_iteration
MaxFnMaxTurns == 4

ShipIt == <<"s", "h", "i", "p", " ", "i", "t">>

\* what stands before the phrase in a reviewer text
FnPrefixes ==
    {<<>>, <<" ">>, <<"\n", "\t">>,
     <<"L", "o", "o", "k", "s", " ", "g", "o", "o", "d", ",", " ">>,
     <<"o", "k", "!", " ">>,
     <<"o", "k", "\n">>,
     <<"o", "k", " ", "\n", " ">>}

\* the phrase and its look-alikes
FnCores ==
    {<<>>, ShipIt,
     <<"S", "H", "I", "P", " ", "I", "T">>,
     <<"S", "h", "i", "p", " ", "I", "t">>,
     <<"s", "h", "i", "p", " ", " ", " ", "i", "t">>,
     <<"s", "h", "i", "p", "\t", "i", "t">>,
     <<"s", "h", "i", "p", "\n", "i", "t">>,
     <<"s", "h", "i", "p", "i", "t">>,
     <<"s", "h", "i", "p">>,
     <<"s", "h", "i", "p", "p", "i", "n", "g">>,
     <<"s", "h", "i", "p", " ", "t", "h", "i", "s", " ", "i", "t", "e", "m">>}

\* what stands after it
FnSuffixes ==
    {<<>>, <<"!">>, <<"!", ".", "!">>, <<"?">>, <<"e", "m">>,
     <<" ", "n", "o", "w">>,
     <<"!", " ", "G", "o", "o", "d", ".">>,
     <<" ", "\n">>,
     <<"\n", "o", "k">>}

FnTexts == {p \o c \o x : p \in FnPrefixes, c \in FnCores, x \in FnSuffixes}

\* a list of turns with the given approved flags
FnTurns(flags) ==
    [i \in 1..Len(flags) |->
        [turn_number |-> i, slogan |-> <<"s", TurnTag(i)>>,
         feedback |-> Some(IF flags[i] THEN ShipIt ELSE <<"n", "o">>),
         approved |-> flags[i], timestamp |-> 0]]

FnTurnLists ==
    UNION {{FnTurns(flags) : flags \in [1..n -> BOOLEAN]} : n \in 0..MaxFnTurns}

NoFnInput == [text |-> <<>>, turns |-> <<>>, max_turns |-> 0]

FnInputs ==
    {[NoFnInput EXCEPT !.text = t] : t \in FnTexts}
    \cup {[NoFnInput EXCEPT !.turns = ts, !.max_turns = m] :
             ts \in FnTurnLists, m \in 0..MaxFnMaxTurns}

NoFnOutput == [fn |-> "none", value |-> FALSE]

ApplyIsApproved ==
    /\ mode = "fn"
    /\ fout' = [fn |-> "is_approved", value |-> is_approved(fin.text)]
    /\ UNCHANGED <<mode, clock, fin, runVars, ledgerVars>>

ApplyShouldContinue ==
    /\ mode = "fn"
    /\ fout' = [fn |-> "should_continue_iteration",
                value |-> should_continue_iteration(fin.turns, fin.max_turns)]
    /\ UNCHANGED <<mode, clock, fin, runVars, ledgerVars>>

FnNext == ApplyIsApproved \/ ApplyShouldContinue

InitFn ==
    /\ fin \in (IF mode = "fn" THEN FnInputs ELSE {NoFnInput})
    /\ fout = NoFnOutput

----------------------------------------------------------------------------
(* Specifications *)

Modes == {"seq", "conc", "ledger", "fn", "api", "models", "live"}

Init == mode \in Modes /\ InitRuns /\ InitLedger /\ InitFn

Next == ApiNext \/ LedgerNext \/ FnNext

\* everything: runs one after the other, runs side by side, the bare ledger
Spec == Init /\ [][Next]_vars

InitSeq == mode = "seq" /\ InitRuns /\ InitLedger /\ InitFn

\* calls of run_slogan_generation one after the other
SpecSeq == InitSeq /\ [][RunNext]_vars

InitConc == mode = "conc" /\ InitRuns /\ InitLedger /\ InitFn

\* calls of run_slogan_generation interleaved at their awaits
SpecConc == InitConc /\ [][RunNext]_vars

InitLedgerOnly == mode = "ledger" /\ InitRuns /\ InitLedger /\ InitFn

\* add_turn and complete called directly
SpecLedger == InitLedgerOnly /\ [][LedgerNext]_vars

InitRunModes == mode \in {"seq", "conc"} /\ InitRuns /\ InitLedger /\ InitFn

\* calls of run_slogan_generation, one after the other or interleaved
SpecRuns == InitRunModes /\ [][RunNext]_vars

InitApi == mode \in {"seq", "ledger"} /\ InitRuns /\ InitLedger /\ InitFn

\* sessions built by run_slogan_generation and sessions built directly
SpecApi == InitApi /\ [][RunNext \/ LedgerNext]_vars

InitGenerate == mode = "api" /\ InitRuns /\ InitLedger /\ InitFn

\* requests to the generate endpoint
SpecGenerate == InitGenerate /\ [][ApiNext]_vars

InitModels == mode = "models" /\ InitRuns /\ InitLedger /\ InitFn

\* calls of run_slogan_generation interleaved at their awaits, with different
\* model overrides
SpecModels == InitModels /\ [][RunNext]_vars

\* the responder awaited by slot r returns or raises
Responds(r) ==
    \/ \E e \in ResponderErrors : WriterRaises(r, e)
    \/ \E e \in ResponderErrors : ReviewerRaises(r, e)
    \/ \E text \in WriterTexts : WriterReturns(r, text)
    \/ \E text \in ReviewerTexts : ReviewerReturns(r, text)

InitLive == mode = "live" /\ InitRuns /\ InitLedger /\ InitFn

\* one call of run_slogan_generation per slot, interleaved at their awaits, with
\* max_turns overrides 0, 1 and 11, every responder invocation returning or
\* raising in the end
SpecLive ==
    /\ InitLive
    /\ [][RunNext]_vars
    /\ \A r \in Slots : WF_vars(Responds(r))

InitFnOnly == mode = "fn" /\ InitRuns /\ InitLedger /\ InitFn

\* is_approved and should_continue_iteration on their own
SpecFn == InitFnOnly /\ [][FnNext]_vars

InitApproval == mode \in {"seq", "fn"} /\ InitRuns /\ InitLedger /\ InitFn

\* approval detection on its own and inside run_slogan_generation
SpecApproval == InitApproval /\ [][RunNext \/ FnNext]_vars

----------------------------------------------------------------------------
(* Properties *)

HasSession(r) == ~IsNone(session[r])

Sess(r) == Val(session[r])

Returned(r) == pc[r] = "done" /\ result[r].kind = "returned"

NoApproved(turns) == \A i \in 1..Len(turns) : ~turns[i].approved

LastSlogan(turns) == Some(turns[Len(turns)].slogan)

\* C1: a turn recorded with approved = true is the last turn of its session,
\* the session is completed with reason Approved and returned at once, and the
\* run has invoked the writer and the reviewer once per recorded turn and no
\* more, whatever max_turns still allows.
ApprovalStopsRun ==
    \A r \in Slots :
        HasSession(r) =>
            \A i \in 1..Len(Sess(r).turns) :
                Sess(r).turns[i].approved =>
                    /\ i = Len(Sess(r).turns)
                    /\ Sess(r).completed
                    /\ Sess(r).completion_reason = "approved"
                    /\ Returned(r)
                    /\ hist[r].winv = Len(Sess(r).turns)
                    /\ hist[r].rinv = Len(Sess(r).turns)

\* C1 witness: a run approved in its second turn or later while the shared
\* max_turns would have allowed more turns
ApprovedBelowCap ==
    \E r \in Slots :
        /\ HasSession(r)
        /\ Len(Sess(r).turns) >= 2
        /\ Sess(r).turns[Len(Sess(r).turns)].approved
        /\ Len(Sess(r).turns) < cfg.max_turns
        /\ Returned(r)

\* C2: a single run with max_turns = m in 1..10 whose reviewer never approves
\* and whose responders never fail returns a session of exactly m turns,
\* completed with reason MaxTurns and final_slogan the slogan of turn m.
MaxTurnsExact ==
    \A r \in Slots :
        ( /\ Returned(r)
          /\ ~IsNone(args[r].max_turns)
          /\ Val(args[r].max_turns) \in 1..TurnNumberMax
          /\ NoApproved(Sess(r).turns) ) =>
            /\ Len(Sess(r).turns) = Val(args[r].max_turns)
            /\ Sess(r).completed
            /\ Sess(r).completion_reason = "max_turns"
            /\ Sess(r).final_slogan = LastSlogan(Sess(r).turns)
            /\ Sess(r).final_slogan = Some(<<"s", TurnTag(Val(args[r].max_turns))>>)

\* C2 witness: a returned run of ten unapproved turns with max_turns = 10
TenTurnsReturned ==
    \E r \in Slots :
        /\ Returned(r)
        /\ args[r].max_turns = Some(10)
        /\ Len(Sess(r).turns) = 10
        /\ NoApproved(Sess(r).turns)

\* C3, as claimed: a run started with max_turns = m never records more than m
\* turns and, if its reviewer never approves, returns with exactly m turns and
\* reason MaxTurns, also when another run is interleaved with it.
OwnMaxTurnsBoundsRun ==
    \A r \in Slots :
        (HasSession(r) /\ ~IsNone(args[r].max_turns)) =>
            /\ Len(Sess(r).turns) <= Val(args[r].max_turns)
            /\ (Returned(r) /\ NoApproved(Sess(r).turns)) =>
                   /\ Len(Sess(r).turns) = Val(args[r].max_turns)
                   /\ Sess(r).completion_reason = "max_turns"

\* C4, as claimed: whatever overrides earlier runs were given, a run given no
\* override uses the configured default model and the configured default
\* max_turns (5).
DefaultsSurviveOverrides ==
    \A r \in Slots :
        (HasSession(r) /\ IsNone(args[r].model_name) /\ IsNone(args[r].max_turns)) =>
            /\ Sess(r).model_name = DefaultModel
            /\ local[r].writer_model = DefaultModel
            /\ local[r].reviewer_model = DefaultModel
            /\ (Returned(r) /\ NoApproved(Sess(r).turns)) =>
                   Len(Sess(r).turns) = DefaultMaxTurns

\* a text of no characters or of whitespace only
BlankText(t) == \A i \in 1..Len(t) : IsSpace(t[i])

\* C5: a call with an empty or whitespace-only user_input ends in ValueError
\* with no session, no agent created, no responder invoked and the shared
\* configuration as it was before the call.
EmptyInputRejected ==
    [][\A r \in Slots :
          (hist'[r].callno # hist[r].callno /\ BlankText(args'[r].user_input)) =>
              /\ pc'[r] = "done"
              /\ result'[r].kind = "ValueError"
              /\ session'[r] = None
              /\ local'[r] = NoLocal
              /\ hist'[r].winv = 0
              /\ hist'[r].rinv = 0
              /\ cfg' = cfg]_vars

\* C5 witness: a whitespace-only call that carried both overrides, rejected
BlankInputRejectedState ==
    \E r \in Slots :
        /\ pc[r] = "done"
        /\ args[r].user_input = <<" ">>
        /\ ~IsNone(args[r].model_name)
        /\ ~IsNone(args[r].max_turns)
        /\ result[r].kind = "ValueError"
        /\ cfg = DefaultConfig

\* C6: when a writer or reviewer invocation raises, the run ends there: the
\* session is completed with reason Error, the caller gets RuntimeError and no
\* session, and the failed invocation was the last one (no retry).
ResponderFailureEndsRun ==
    \A r \in Slots :
        hist[r].failed =>
            /\ pc[r] = "done"
            /\ result[r].kind = "RuntimeError"
            /\ HasSession(r)
            /\ Sess(r).completed
            /\ Sess(r).completion_reason = "error"
            /\ hist[r].winv = Len(Sess(r).turns) + 1
            /\ hist[r].rinv \in {Len(Sess(r).turns), Len(Sess(r).turns) + 1}

\* C6 witness: the reviewer raised in the second turn
ReviewerFailedInTurnTwo ==
    \E r \in Slots :
        /\ hist[r].failed
        /\ hist[r].rinv = 2
        /\ Len(Sess(r).turns) = 1

\* C7, as claimed: every session with completed = true has a non-empty
\* final_slogan and a completion_reason.
CompletedHasFinalSlogan ==
    \A r \in Slots :
        (HasSession(r) /\ Sess(r).completed) =>
            /\ ~IsNone(Sess(r).final_slogan)
            /\ TextLen(Val(Sess(r).final_slogan)) >= 1
            /\ Sess(r).completion_reason \in CompletionReasons

TurnsNumbered(turns) == \A i \in 1..Len(turns) : turns[i].turn_number = i

\* C8: in every session the turn at position i carries turn_number i, and
\* add_turn returns the turn it appended.
TurnNumbersSequential ==
    /\ TurnsNumbered(ledger.turns)
    /\ (lres.op = "add_turn" /\ lres.ok) =>
           /\ ledger.turns # <<>>
           /\ lres.turn = Some(ledger.turns[Len(ledger.turns)])
    /\ \A r \in Slots : HasSession(r) => TurnsNumbered(Sess(r).turns)

\* C8 witness: a third turn appended, to a session already marked complete
ThirdTurnAppended ==
    /\ lres.op = "add_turn"
    /\ lres.ok
    /\ Len(ledger.turns) = 3
    /\ lres.turn = Some(ledger.turns[3])
    /\ ledger.completed

\* C9: no session holds more than 10 turns; add_turn on a session of 10 turns
\* fails and leaves the turns as they were.
TurnCapEnforced ==
    /\ [](/\ Len(ledger.turns) <= TurnNumberMax
          /\ \A r \in Slots : HasSession(r) => Len(Sess(r).turns) <= TurnNumberMax)
    /\ [][Len(ledger.turns) = TurnNumberMax =>
             /\ ledger'.turns = ledger.turns
             /\ (lres'.op = "add_turn" /\ lres' # lres) => ~lres'.ok]_vars

\* C9 witness: add_turn with a valid slogan and feedback refused on a session
\* of 10 turns
EleventhTurnRefused ==
    /\ Len(ledger.turns) = TurnNumberMax
    /\ lres.op = "add_turn"
    /\ ~lres.ok
    /\ TurnValid(1, lres.slogan, lres.feedback)

\* C10: final_slogan is None as long as the session is not completed; right
\* after complete on a session with turns, and in every returned session, it
\* is the slogan of the last turn.
FinalSloganIsLast ==
    /\ ~ledger.completed => IsNone(ledger.final_slogan)
    /\ (lres.op = "complete" /\ ledger.turns # <<>>) =>
           ledger.final_slogan = LastSlogan(ledger.turns)
    /\ \A r \in Slots :
           HasSession(r) =>
               /\ ~Sess(r).completed => IsNone(Sess(r).final_slogan)
               /\ Returned(r) =>
                      /\ Sess(r).turns # <<>>
                      /\ Sess(r).final_slogan = LastSlogan(Sess(r).turns)

\* C10 witness: complete called on a directly built session of three turns
CompletedAfterThreeTurns ==
    /\ lres.op = "complete"
    /\ Len(ledger.turns) = 3
    /\ ledger.final_slogan = Some(<<"s", "3">>)

\* C11, as claimed: building an IterationSession from the field dictionary of
\* any session reached through add_turn and complete succeeds and gives the
\* same turns in the same order, the same feedback and the same
\* completion_reason.
RoundTripPreserves ==
    lres.op = "roundtrip" =>
        /\ lres.ok
        /\ ~IsNone(lres.rebuilt)
        /\ Val(lres.rebuilt).turns = ledger.turns
        /\ Val(lres.rebuilt).completion_reason = ledger.completion_reason

\* C12: a run the time limit expires on is aborted where it waits: the caller
\* gets the timeout error, which the endpoint answers with 504
\* 'generation_timeout'; its session is never completed (neither MaxTurns nor
\* Approved) and never returned, and within that call no responder is invoked
\* and no turn appended afterwards.
TimeoutAbortsRun ==
    /\ [](\A r \in Slots :
            hist[r].expired =>
                /\ pc[r] = "done"
                /\ result[r].kind = "TimeoutError"
                /\ ApiResponse(result[r]) = [status |-> 504, error |-> "generation_timeout"]
                /\ HasSession(r)
                /\ ~Sess(r).completed
                /\ Sess(r).completion_reason = NoReason)
    /\ [][\A r \in Slots :
            (hist[r].expired /\ hist'[r].callno = hist[r].callno) =>
                /\ hist'[r] = hist[r]
                /\ session'[r] = session[r]
                /\ result'[r] = result[r]]_vars

\* C12 witness: the limit expired while the reviewer of the second turn was
\* awaited
TimedOutInSecondTurn ==
    \E r \in Slots :
        /\ hist[r].expired
        /\ result[r].kind = "TimeoutError"
        /\ Len(Sess(r).turns) = 1
        /\ hist[r].rinv = 2
        /\ ~IsNone(local[r].slogan)

\* C13, as claimed: a call with a max_turns override outside 1..10 ends with an
\* invalid-input error before the loop starts: no responder is invoked and no
\* turn is recorded.
MaxTurnsOverrideValidated ==
    \A r \in Slots :
        (pc[r] # "idle" /\ ~IsNone(args[r].max_turns)
            /\ Val(args[r].max_turns) \notin 1..TurnNumberMax) =>
                /\ pc[r] = "done"
                /\ result[r].kind \in {"ValueError", "ValidationError"}
                /\ hist[r].winv = 0
                /\ hist[r].rinv = 0
                /\ (HasSession(r) => Sess(r).turns = <<>>)

LastApproved(turns) == turns # <<>> /\ turns[Len(turns)].approved

ShipItLine(line) ==
    \E a \in 5..Len(line) :
        /\ SubSeq(line, 1, 4) = <<"s", "h", "i", "p">>
        /\ \A k \in 5..a : line[k] \in {" ", "\t"}
        /\ a + 2 <= Len(line)
        /\ SubSeq(line, a + 1, a + 2) = <<"i", "t">>
        /\ \A k \in (a + 3)..Len(line) : line[k] \in {"!", "."}

\* the lines of a text: the pieces between its newlines
LinesOf(t) ==
    LET cuts == <<0>> \o SelectSeq([i \in 1..Len(t) |-> IF t[i] = "\n" THEN i ELSE 0],
                                   LAMBDA i : i > 0) \o <<Len(t) + 1>>
    IN  {SubSeq(t, cuts[j] + 1, cuts[j + 1] - 1) : j \in 1..(Len(cuts) - 1)}

PhraseAt(n) == {i \in 1..Len(n) : StartsWith(SubSeq(n, i, Len(n)), ShipIt)}

\* a word stands before place i on its line
WordBefore(n, i) ==
    \E j \in 1..(i - 1) :
        /\ ~IsSpace(n[j])
        /\ \A k \in j..(i - 1) : n[k] # "\n"

\* 'ship it' occurs in the text, but only after other words on the same line:
\* neither at the start of the text nor alone on a line
TrailingOnly(text) ==
    LET n == Lower(Strip(text))
    IN  /\ PhraseAt(n) # {}
        /\ \A i \in PhraseAt(n) : WordBefore(n, i)
        /\ \A line \in LinesOf(n) : ~ShipItLine(Strip(line))

PhraseAnywhere(text) ==
    LET n == Lower(text)
    IN  \E i \in 1..Len(n), j \in 1..Len(n) :
            /\ i + 4 <= j
            /\ SubSeq(n, i, i + 3) = <<"s", "h", "i", "p">>
            /\ \A k \in (i + 4)..(j - 1) : IsSpace(n[k])
            /\ j + 1 <= Len(n)
            /\ SubSeq(n, j, j + 1) = <<"i", "t">>

FirstFeedback(r) == Val(Sess(r).turns[1].feedback)

IsWordChar(c) == ~IsSpace(c) /\ c \notin {"!", ".", ",", "?"}

\* 'ship' followed by the separate word 'it': blanks between them and no word
\* character right after 'it'
ShipThenWordIt(n) ==
    \E i \in 1..Len(n), j \in 1..Len(n) :
        /\ i + 4 < j
        /\ SubSeq(n, i, i + 3) = <<"s", "h", "i", "p">>
        /\ \A k \in (i + 4)..(j - 1) : IsSpace(n[k])
        /\ j + 1 <= Len(n)
        /\ SubSeq(n, j, j + 1) = <<"i", "t">>
        /\ j + 2 <= Len(n) => ~IsWordChar(n[j + 2])

\* C18, as claimed: is_approved is false for every text in which 'ship' is not
\* followed by the separate word 'it'.
ShipWithoutItRejected ==
    (fout.fn = "is_approved" /\ ~ShipThenWordIt(Lower(fin.text))) => ~fout.value

\* the turn of the session with the given number, if there is one
TurnNumbered(turns, k) == {turns[i] : i \in {j \in 1..Len(turns) : turns[j].turn_number = k}}

\* C19: the writer prompt of turn 1 has the topic and no previous slogan or
\* feedback; the writer prompt of turn k > 1 has the slogan and the feedback
\* recorded in turn k-1 of the same session; the reviewer prompt of turn k has
\* the slogan the writer just produced, which is the slogan recorded in turn k.
PromptsCarryPreviousTurn ==
    /\ [](\A r \in Slots :
            /\ pc[r] = "await_writer" =>
                  LET p == Val(local[r].writer_prompt)
                      k == hist[r].winv
                  IN  /\ p.topic = args[r].user_input
                      /\ k = 1 => IsNone(p.previous_slogan) /\ IsNone(p.previous_feedback)
                      /\ k > 1 =>
                            \E t \in TurnNumbered(Sess(r).turns, k - 1) :
                                /\ p.previous_slogan = Some(t.slogan)
                                /\ p.previous_feedback = t.feedback
            /\ pc[r] = "await_reviewer" =>
                  LET q == Val(local[r].reviewer_prompt)
                  IN  /\ q.topic = args[r].user_input
                      /\ Some(q.slogan) = local[r].slogan)
    /\ [][\A r \in Slots :
            (pc[r] = "await_writer" /\ pc'[r] = "await_reviewer") =>
                \E text \in WriterTexts : Val(local'[r].reviewer_prompt).slogan = Strip(text)]_vars
    /\ [][\A r \in Slots :
            (pc[r] = "await_reviewer" /\ HasSession(r) /\ HasSession(r)'
                /\ Len(Sess(r)'.turns) = Len(Sess(r).turns) + 1) =>
                    Sess(r)'.turns[Len(Sess(r)'.turns)].slogan
                        = Val(local[r].reviewer_prompt).slogan]_vars

\* C19 witness: the writer of turn 3 is awaited with the slogan and the
\* feedback of turn 2 in its prompt, which are not those of turn 1
ThirdWriterPrompt ==
    \E r \in Slots :
        /\ pc[r] = "await_writer"
        /\ hist[r].winv = 3
        /\ Len(Sess(r).turns) = 2
        /\ Val(local[r].writer_prompt).previous_slogan = Some(Sess(r).turns[2].slogan)
        /\ Val(local[r].writer_prompt).previous_feedback = Sess(r).turns[2].feedback
        /\ Sess(r).turns[1].slogan # Sess(r).turns[2].slogan
        /\ Sess(r).turns[1].feedback # Sess(r).turns[2].feedback

\* C20: in one run the responders are invoked in turn: while the writer of
\* turn k is awaited, k-1 turns are appended and k-1 reviewers were invoked;
\* while the reviewer of turn k is awaited, the writer of turn k has returned
\* its slogan and k-1 turns are appended; a returned session with n turns comes
\* from n writer and n reviewer invocations; an invocation is made only from
\* the place the other responder left.
InvocationsAlternate ==
    /\ [](\A r \in Slots :
            /\ pc[r] = "await_writer" =>
                  /\ hist[r].winv = Len(Sess(r).turns) + 1
                  /\ hist[r].rinv = Len(Sess(r).turns)
            /\ pc[r] = "await_reviewer" =>
                  /\ hist[r].winv = Len(Sess(r).turns) + 1
                  /\ hist[r].rinv = Len(Sess(r).turns) + 1
                  /\ ~IsNone(local[r].slogan)
            /\ Returned(r) =>
                  /\ hist[r].winv = Len(Sess(r).turns)
                  /\ hist[r].rinv = Len(Sess(r).turns))
    /\ [][\A r \in Slots :
            hist'[r].callno = hist[r].callno =>
                /\ hist'[r].rinv # hist[r].rinv =>
                      /\ hist'[r].rinv = hist[r].rinv + 1
                      /\ hist'[r].winv = hist[r].winv
                      /\ pc[r] = "await_writer"
                      /\ pc'[r] = "await_reviewer"
                /\ hist'[r].winv # hist[r].winv =>
                      /\ hist'[r].winv = hist[r].winv + 1
                      /\ hist'[r].rinv = hist[r].rinv
                      /\ pc[r] = "await_reviewer"
                      /\ pc'[r] = "await_writer"
                      /\ Len(Sess(r)'.turns) = Len(Sess(r).turns) + 1]_vars

\* C20 witness: a session returned with three turns after three writer and
\* three reviewer invocations
ThreeTurnsThreeInvocations ==
    \E r \in Slots :
        /\ Returned(r)
        /\ Len(Sess(r).turns) = 3
        /\ hist[r].winv = 3
        /\ hist[r].rinv = 3

\* C21, as claimed: a violation of the Turn/Session constraints inside the loop
\* reaches the caller as the validation error itself, not as the wrapped
\* run-level failure.
ValidationErrorPropagates ==
    \A r \in Slots :
        (pc[r] = "done" /\ result[r].cause = "ValidationError") =>
            result[r].kind = "ValidationError"

\* the phase a failed run failed in: the reviewer is invoked once the writer
\* has returned
FailedPhase(r) == IF hist[r].rinv < hist[r].winv THEN "writer" ELSE "reviewer"

\* C22, as claimed: a writer failure and a reviewer failure with the same
\* underlying error give the caller different errors.
FailingPhaseIdentified ==
    \A r1 \in Slots, r2 \in Slots :
        (/\ pc[r1] = "done" /\ hist[r1].failed /\ FailedPhase(r1) = "writer"
         /\ pc[r2] = "done" /\ hist[r2].failed /\ FailedPhase(r2) = "reviewer"
         /\ result[r1].cause = result[r2].cause)
        => result[r1] # result[r2]

\* C23: a responder is awaited only for a session that is not completed; once
\* the session of a call is completed, that call invokes no responder, appends
\* no turn and changes no field of the session; a session completed on an
\* approved turn is returned with reason Approved.
CompletedIsTerminal ==
    /\ [](\A r \in Slots :
            /\ pc[r] \in {"await_writer", "await_reviewer"} => ~Sess(r).completed
            /\ (Returned(r) /\ LastApproved(Sess(r).turns)) =>
                  Sess(r).completion_reason = "approved")
    /\ [][\A r \in Slots :
            (HasSession(r) /\ Sess(r).completed /\ hist'[r].callno = hist[r].callno) =>
                /\ session'[r] = session[r]
                /\ hist'[r].winv = hist[r].winv
                /\ hist'[r].rinv = hist[r].rinv
                /\ pc'[r] = "done"]_vars

\* C23 witness: a session completed with reason Approved below its cap, and
\* another call was made elsewhere afterwards
ApprovedStaysApproved ==
    \E r \in Slots :
        /\ Returned(r)
        /\ Sess(r).completion_reason = "approved"
        /\ Len(Sess(r).turns) < cfg.max_turns
        /\ ncalls > hist[r].callno

\* C24, as claimed: when a responder raises ConnectionError during the run, the
\* endpoint answers 503 'service_unavailable'.
UnreachableBackendIs503 ==
    \A r \in Slots :
        (pc[r] = "done" /\ hist[r].failed /\ result[r].cause = "ConnectionError") =>
            ApiResponse(result[r]) = [status |-> 503, error |-> "service_unavailable"]

\* the request of slot r named a model that the fetched list does not have
ModelNotListed(h, a) ==
    /\ h.fetch.kind = "list"
    /\ ~IsNone(a.model_name)
    /\ Val(a.model_name) \notin h.fetch.models

\* C25: a request naming a model that is not in the fetched list is answered
\* 400 and starts no run: no responder is invoked, no session is made and the
\* shared configuration is not changed; when the list cannot be fetched the
\* run proceeds with the requested model.
ModelCheckedBeforeRun ==
    /\ [](\A r \in Slots :
            /\ ModelNotListed(hist[r], args[r]) =>
                  /\ pc[r] = "done"
                  /\ result[r].kind = "HTTPException"
                  /\ ApiResponse(result[r]).status = 400
                  /\ hist[r].winv = 0
                  /\ hist[r].rinv = 0
                  /\ ~HasSession(r)
            /\ (hist[r].fetch.kind \in {"ConnectionError", "RuntimeError"}
                  /\ ~BlankText(args[r].user_input)) =>
                  /\ result[r].kind # "HTTPException"
                  /\ hist[r].winv >= 1
                  /\ HasSession(r)
                  /\ Sess(r).model_name = Val(args[r].model_name)
                  /\ local[r].writer_model = Val(args[r].model_name)
                  /\ local[r].reviewer_model = Val(args[r].model_name))
    /\ [][\A r \in Slots :
            (hist'[r].callno # hist[r].callno /\ ModelNotListed(hist'[r], args'[r])) =>
                cfg' = cfg]_vars

\* C25 witness: the second request named a model missing from the fetched list
\* and was refused, the configuration still as the first run left it
UnlistedModelRefused ==
    \E r \in Slots :
        /\ ModelNotListed(hist[r], args[r])
        /\ result[r].kind = "HTTPException"
        /\ hist[r].callno = 2
        /\ cfg.model_name = DefaultModel
        /\ cfg.max_turns = 2

\* C25 witness of the other case is part of the same runs: the list could not
\* be fetched and the writer of the requested model is awaited
FetchFailedRunProceeds ==
    \E r \in Slots :
        /\ hist[r].fetch.kind = "ConnectionError"
        /\ pc[r] = "await_writer"
        /\ local[r].writer_model = "llama3"

\* started_at <= timestamp of turn 1 <= ... <= timestamp of the last turn
TurnTimesOrdered(s) ==
    /\ s.turns # <<>> => s.started_at <= s.turns[1].timestamp
    /\ \A i \in 1..(Len(s.turns) - 1) : s.turns[i].timestamp <= s.turns[i + 1].timestamp

\* ... <= completed_at
CompletedAfterTurns(s) ==
    /\ s.started_at <= s.completed_at
    /\ s.turns # <<>> => s.turns[Len(s.turns)].timestamp <= s.completed_at

\* C26: with a clock that does not go back, every session has
\* started_at <= timestamp of turn 1 <= ... <= timestamp of the last turn, and
\* a session completed by the run has completed_at at or after the last of
\* them; complete called directly stamps completed_at at or after the
\* timestamp of the last turn appended so far.
TimestampsOrdered ==
    /\ [](/\ \A r \in Slots :
               HasSession(r) =>
                   /\ TurnTimesOrdered(Sess(r))
                   /\ Sess(r).completed => CompletedAfterTurns(Sess(r))
          /\ TurnTimesOrdered(ledger))
    /\ [][lres'.op = "complete" => CompletedAfterTurns(ledger')]_vars

\* C26 witness: complete was called on a session with two turns whose times
\* are strictly increasing from started_at on
StrictlyLaterTurns ==
    /\ lres.op = "complete"
    /\ ledger.completed
    /\ Len(ledger.turns) = 2
    /\ ledger.started_at < ledger.turns[1].timestamp
    /\ ledger.turns[1].timestamp < ledger.turns[2].timestamp
    /\ ledger.turns[2].timestamp <= ledger.completed_at

\* the fields complete sets
CompletionFields(s) ==
    <<s.completed, s.completion_reason, s.completed_at, s.final_slogan>>

\* the fields neither add_turn nor complete sets
CreationFields(s) == <<s.user_input, s.model_name, s.started_at>>

\* C27: add_turn appends one turn (none when it is refused) and leaves
\* user_input, model_name, started_at, the completion fields and the turns
\* already there as they were; complete leaves user_input, model_name,
\* started_at and the turns as they were.
FrameOfLedgerOperations ==
    [][/\ lres'.op = "add_turn" =>
             /\ CreationFields(ledger') = CreationFields(ledger)
             /\ CompletionFields(ledger') = CompletionFields(ledger)
             /\ lres'.ok =>
                   /\ Len(ledger'.turns) = Len(ledger.turns) + 1
                   /\ SubSeq(ledger'.turns, 1, Len(ledger.turns)) = ledger.turns
             /\ ~lres'.ok => ledger'.turns = ledger.turns
       /\ lres'.op = "complete" =>
             /\ CreationFields(ledger') = CreationFields(ledger)
             /\ ledger'.turns = ledger.turns]_vars

\* C27 witness: a turn was appended to a session that was completed with two
\* turns, and the completion fields are those of the completion
AppendedAfterCompletion ==
    /\ lres.op = "add_turn"
    /\ lres.ok
    /\ Len(ledger.turns) = 3
    /\ ledger.completed
    /\ ledger.completion_reason = "max_turns"
    /\ ledger.final_slogan = Some(ledger.turns[2].slogan)

\* C28: complete(reason) on a session without turns does not fail: it sets
\* completed, completion_reason = reason and completed_at, and leaves
\* final_slogan null.
CompleteWithoutTurns ==
    [][(lres'.op = "complete" /\ ledger.turns = <<>>) =>
           /\ lres'.ok
           /\ ledger'.completed
           /\ ledger'.completion_reason = lres'.reason
           /\ lres'.reason \in CompletionReasons
           /\ ledger'.completed_at = clock'
           /\ ledger'.completed_at # NoTime
           /\ IsNone(ledger'.final_slogan)
           /\ ledger'.turns = <<>>]_vars

\* C28 witness: a session without turns completed with reason Error
CompletedEmptyWithError ==
    /\ lres.op = "complete"
    /\ ledger.turns = <<>>
    /\ ledger.completed
    /\ ledger.completion_reason = "error"
    /\ IsNone(ledger.final_slogan)

\* C29: for a session returned by a run alone in its process, with the
\* max_turns in force in 1..10: the reason is Approved exactly when the last
\* turn is approved, and MaxTurns exactly when no turn is approved and the
\* number of turns is max_turns.
ReasonMatchesTurns ==
    \A r \in Slots :
        (mode = "seq" /\ Returned(r) /\ cfg.max_turns \in 1..TurnNumberMax) =>
            LET t == Sess(r).turns
            IN  /\ Sess(r).completion_reason = "approved" <=>
                      (t # <<>> /\ t[Len(t)].approved)
                /\ Sess(r).completion_reason = "max_turns" <=>
                      (NoApproved(t) /\ Len(t) = cfg.max_turns)

\* C29 witness: approval on the turn whose number is max_turns gave Approved
ApprovedOnLastAllowedTurn ==
    \E r \in Slots :
        /\ mode = "seq"
        /\ Returned(r)
        /\ cfg.max_turns = 2
        /\ Len(Sess(r).turns) = 2
        /\ Sess(r).turns[2].approved
        /\ Sess(r).completion_reason = "approved"

\* C30: a session returned by run_slogan_generation is completed, has at
\* least one turn and a non-empty final_slogan, and has reason Approved or
\* MaxTurns; a session with reason Error is not returned.
ReturnedSessionWellFormed ==
    \A r \in Slots :
        /\ Returned(r) =>
              /\ HasSession(r)
              /\ Sess(r).completed
              /\ Len(Sess(r).turns) >= 1
              /\ ~IsNone(Sess(r).final_slogan)
              /\ TextLen(Val(Sess(r).final_slogan)) >= 1
              /\ Sess(r).completion_reason \in {"approved", "max_turns"}
        /\ (HasSession(r) /\ Sess(r).completion_reason = "error") =>
              /\ ~Returned(r)
              /\ result[r].kind = "RuntimeError"

\* C30 witness: in two interleaved runs one session was returned and the other
\* was completed with reason Error and not returned
ReturnedBesideFailed ==
    \E r1 \in Slots, r2 \in Slots :
        /\ Returned(r1)
        /\ Sess(r1).completion_reason = "max_turns"
        /\ HasSession(r2)
        /\ Sess(r2).completion_reason = "error"
        /\ result[r2].kind = "RuntimeError"

\* C31: when the reviewer invocation of turn k fails, the slogan the writer
\* produced for turn k is not recorded: the session, marked Error, has k-1
\* turns and final_slogan is the slogan of turn k-1, null when k = 1.
FailedReviewDropsSlogan ==
    \A r \in Slots :
        (pc[r] = "done" /\ hist[r].failed /\ FailedPhase(r) = "reviewer") =>
            LET k == hist[r].winv
                t == Sess(r).turns
            IN  /\ Sess(r).completed
                /\ Sess(r).completion_reason = "error"
                /\ Len(t) = k - 1
                /\ \A i \in 1..Len(t) : Some(t[i].slogan) # local[r].slogan
                /\ Sess(r).final_slogan =
                      IF k = 1 THEN None ELSE Some(t[k - 1].slogan)

\* C31 witness: the reviewer of turn 3 failed; two turns are recorded and
\* final_slogan is the slogan of turn 2, not the one written for turn 3
ReviewerFailedInTurnThree ==
    \E r \in Slots :
        /\ pc[r] = "done"
        /\ hist[r].failed
        /\ FailedPhase(r) = "reviewer"
        /\ hist[r].winv = 3
        /\ Len(Sess(r).turns) = 2
        /\ Sess(r).final_slogan = Some(Sess(r).turns[2].slogan)
        /\ ~IsNone(local[r].slogan)
        /\ local[r].slogan # Sess(r).final_slogan

\* C32: in runs side by side with different model overrides, the model_name
\* of a run's session is the model its own writer and reviewer were created
\* with, and the one its call asked for, whatever the other run has made of the
\* shared configuration since.
SessionModelIsAgentsModel ==
    \A r \in Slots :
        HasSession(r) =>
            /\ Sess(r).model_name = local[r].writer_model
            /\ Sess(r).model_name = local[r].reviewer_model
            /\ ~IsNone(args[r].model_name) => Sess(r).model_name = Val(args[r].model_name)

\* C32 witness: two runs with different overrides are both under way, each
\* with its own model in its session and its agents, the shared configuration
\* holding the model of the later one
TwoModelsSideBySide ==
    /\ mode = "models"
    /\ pc[1] = "await_reviewer"
    /\ pc[2] = "await_writer"
    /\ Len(Sess(2).turns) = 1
    /\ args[1].model_name = Some("llama3")
    /\ args[2].model_name = Some("phi3")
    /\ Sess(1).model_name = "llama3"
    /\ local[1].reviewer_model = "llama3"
    /\ Sess(2).model_name = "phi3"
    /\ local[2].writer_model = "phi3"
    /\ cfg.model_name = "llama3"

Awaiting(r) == pc[r] \in {"await_writer", "await_reviewer"}

\* C33: every run ends: a run that awaits a responder comes to its end, with a
\* completed session returned or with an error raised, and no session ever
\* has more than 10 turns, whatever max_turns is and whatever other runs make
\* of the shared max_turns meanwhile.
EveryRunTerminates ==
    /\ \A r \in Slots : Awaiting(r) ~> (pc[r] = "done")
    /\ [](\A r \in Slots :
            /\ HasSession(r) => Len(Sess(r).turns) <= TurnNumberMax
            /\ pc[r] = "done" =>
                  \/ Returned(r) /\ Sess(r).completed
                  \/ result[r].kind \in {"RuntimeError", "TimeoutError", "ValueError",
                                         "ValidationError"})

\* C33 witness: a run called with max_turns = 1 went on to ten turns, another
\* run having raised the shared max_turns to 11, and ended with the error of
\* the refused eleventh turn
RunOutlivedItsMaxTurns ==
    \E r \in Slots :
        /\ args[r].max_turns = Some(1)
        /\ pc[r] = "done"
        /\ Len(Sess(r).turns) = TurnNumberMax
        /\ result[r].kind = "RuntimeError"
        /\ result[r].cause = "ValidationError"
        /\ Sess(r).completion_reason = "error"

====
